---- MODULE Spec2Model ----
(***************************************************************************)
(* Proximity scoring engine of proyecto/app/calculator_backend.py.         *)
(*                                                                         *)
(* Conventions of the model                                                *)
(*   - A geometry is a point <<x, y>> in whole metres of the metric CRS    *)
(*     (EPSG:32719), in a frame whose origin is the projection of the      *)
(*     default location of the calculator page.                            *)
(*   - A geographic coordinate is a whole number of 1e-4 degrees.          *)
(*   - A distance is carried as its square (exact in integers; the square  *)
(*     root is strictly increasing, so minima, ties and equalities of      *)
(*     distances are those of the squares).                                *)
(*   - A score (a float in [0, 1] in the code) is carried as a whole       *)
(*     number of 1/ScoreUnit, ScoreUnit being the least common multiple of *)
(*     the targets, so that count / meta is exact; round(x, n) yields a    *)
(*     whole number of 10^-n.                                              *)
(***************************************************************************)
EXTENDS Integers, Sequences, FiniteSets, TLC

(***************************************************************************)
(* Bounds of the model                                                     *)
(***************************************************************************)
\* most features one layer of a geopackage holds
MaxPerLayer == 2

\* largest count handed to normalizar_conteo on its own
MaxCount == 6

\* largest target written over one of SCORING_CONFIG when the table is redefined
MaxMeta == 2

\* the largest modification time of a file on disk
MaxMtime == 2

(***************************************************************************)
(* Configuration tables                                                    *)
(***************************************************************************)
\* SERVICE_LAYERS, in the insertion order of the dict (category, layer)
SERVICE_LAYERS ==
  << <<"salud", "establecimientos_salud">>,
     <<"educacion_escolar", "establecimientos_educacion">>,
     <<"educacion_superior", "establecimientos_educacion_superior">>,
     <<"supermercados", "osm_supermercados">>,
     <<"almacenes_barrio", "osm_almacenes_barrio">>,
     <<"bancos", "osm_bancos">>,
     <<"ferias_libres", "ferias_libres">>,
     <<"areas_verdes", "areas_verdes">>,
     <<"cuarteles_carabineros", "cuarteles_carabineros">>,
     <<"companias_bomberos", "companias_bomberos">>,
     <<"estadios", "osm_estadios">>,
     <<"malls", "osm_malls">>,
     <<"bencineras", "osm_bencineras">>,
     <<"iglesias", "osm_iglesias">>,
     <<"museos", "osm_museos">>,
     <<"infraestructura_deportiva", "infraestructura_deportiva">>,
     <<"paradas_micro", "paradas_micro">>,
     <<"paradas_metro_tren", "paradas_metro_tren">> >>

\* SERVICE_LAYERS.keys()
ServiceKeys == {SERVICE_LAYERS[i][1] : i \in DOMAIN SERVICE_LAYERS}

\* SCORING_CONFIG[k]["meta"]
SCORING_CONFIG ==
  [k \in ServiceKeys |->
     CASE k \in {"paradas_micro"} -> 5
       [] k \in {"almacenes_barrio", "areas_verdes"} -> 4
       [] k \in {"educacion_escolar", "infraestructura_deportiva"} -> 3
       [] k \in {"paradas_metro_tren", "salud", "supermercados", "bencineras",
                 "bancos", "iglesias"} -> 2
       [] OTHER -> 1]

\* PERFILES_USUARIO[p]["pesos"]
PERFILES_USUARIO ==
  [p \in {"estudiante", "adulto_mayor", "familia_joven"} |->
     CASE p = "estudiante" ->
            [k \in {"educacion_superior", "paradas_metro_tren", "paradas_micro",
                    "bancos", "malls", "infraestructura_deportiva",
                    "areas_verdes", "bencineras"} |->
               CASE k \in {"educacion_superior", "paradas_metro_tren"} -> 5
                 [] k = "paradas_micro" -> 4
                 [] k \in {"bancos", "malls", "infraestructura_deportiva"} -> 3
                 [] k = "areas_verdes" -> 2
                 [] OTHER -> 1]
       [] p = "adulto_mayor" ->
            [k \in {"salud", "farmacias", "paradas_micro", "areas_verdes",
                    "cuarteles_carabineros", "bancos", "ferias_libres",
                    "educacion_escolar", "educacion_superior",
                    "infraestructura_deportiva"} |->
               CASE k \in {"salud", "farmacias"} -> 5
                 [] k \in {"paradas_micro", "areas_verdes"} -> 4
                 [] k \in {"cuarteles_carabineros", "bancos", "ferias_libres"} -> 3
                 [] OTHER -> 1]
       [] OTHER ->
            [k \in {"educacion_escolar", "areas_verdes", "salud", "supermercados",
                    "cuarteles_carabineros", "bencineras", "malls",
                    "educacion_superior"} |->
               CASE k \in {"educacion_escolar", "areas_verdes"} -> 5
                 [] k \in {"salud", "supermercados", "cuarteles_carabineros"} -> 4
                 [] k \in {"bencineras", "malls"} -> 3
                 [] OTHER -> 1]]

\* default of radio_metros, and the radius calcular_indice_calidad_vida passes
RadioDefault == 1000

(***************************************************************************)
(* Geometry                                                                *)
(***************************************************************************)
\* st.session_state.lat_calc / lon_calc at start, in 1e-4 degrees
LatDefault == -334372

LonDefault == -706506

Abs(n) == IF n < 0 THEN -n ELSE n

\* Point(lon, lat) in EPSG:4326 .to_crs(EPSG:32719): the projection, linearised
\* around the default location (about 9 m per 1e-4 degree of longitude and
\* 11 m per 1e-4 degree of latitude at Santiago); x comes from lon, y from lat
ToCrs(lat, lon) == <<(lon - LonDefault) * 9, (lat - LatDefault) * 11>>

\* .to_crs("EPSG:4326") of a metric point, to the 1e-4 degree below
ToWgs84(p) == [lat |-> LatDefault + (p[2] \div 11), lon |-> LonDefault + (p[1] \div 9)]

\* geometry.distance(punto), squared
Dist2(p, q) == (p[1] - q[1]) * (p[1] - q[1]) + (p[2] - q[2]) * (p[2] - q[2])

\* 100000 * cos((2k - 1) * pi / 64), k = 1..16: the outward unit normals of the
\* edges of the first quadrant of the polygon that buffer() builds
CosTable ==
  <<99880, 98918, 97003, 94154, 90399, 85773, 80321, 74095,
    67156, 59570, 51410, 42756, 33689, 24298, 14673, 4907>>

\* punto_usuario.buffer(radio_metros).iloc[0]: GeoSeries.buffer has resolution=16,
\* so the "circle" is the regular 64-gon inscribed in the circle of that radius, with
\* a vertex every pi/32 starting due east; a radius <= 0 gives the empty polygon
Buffer(centro, radio_metros) == [centro |-> centro, radio |-> radio_metros]

\* an empty geometry (POINT EMPTY), the degenerate geometry a feature can carry
GeometriaVacia == <<>>

\* intersects against a buffer that is a polygon whatever the radius: with a
\* radius of 0 it degenerates to the centre, which a point there intersects
intersects_sin_buffer_vacio(p, circulo) ==
  /\ p # GeometriaVacia
  /\ \A k \in 1..16 :
       Abs(p[1] - circulo.centro[1]) * CosTable[k]
         + Abs(p[2] - circulo.centro[2]) * CosTable[17 - k]
           <= circulo.radio * CosTable[1]

\* geometry.intersects(circulo) for a point: inside the polygon or on its boundary;
\* an empty geometry intersects nothing.
\* The polygon is symmetric in both axes; in the first quadrant the point is inside
\* iff it is on the inner side of each of the 16 edges, whose distance from the
\* centre is radio * cos(pi / 64)
Intersects(p, circulo) ==
  LET dx == Abs(p[1] - circulo.centro[1])
      dy == Abs(p[2] - circulo.centro[2])
  IN  /\ p # GeometriaVacia
      /\ circulo.radio > 0
      /\ \A k \in 1..16 :
           dx * CosTable[k] + dy * CosTable[17 - k] <= circulo.radio * CosTable[1]

(***************************************************************************)
(* The unified collection                                                  *)
(***************************************************************************)
\* where a feature of a modelled geopackage can be, by its offset from the
\* projected default location: 500 m away; 1000 m away due east (on a vertex of
\* the 64-gon); 1000 m away off the axes (beyond the 64-gon's edge); and 1400 m
\* away, east and south
Locations == { <<300, 400>>, <<1000, 0>>, <<600, 800>>, <<1400, 0>>, <<0, -1400>> }

\* the layer whose features vary in the modelled geopackages
DataLayers == {"establecimientos_salud"}

\* SERVICE_LAYERS.values()
ServiceLayerNames == {SERVICE_LAYERS[i][2] : i \in DOMAIN SERVICE_LAYERS}

RECURSIVE SeqsUpTo(_, _)
\* the sequences over S of length at most n
SeqsUpTo(S, n) ==
  IF n = 0 THEN {<<>>}
  ELSE LET shorter == SeqsUpTo(S, n - 1)
       IN  shorter \cup {Append(s, e) : s \in {t \in shorter : Len(t) = n - 1}, e \in S}

\* the geopackages of the model. A readable layer is in the domain, with its
\* features' geometries in file order; any other layer is missing or unreadable.
\* Either few layers are readable, with any features at the modelled places, or
\* every layer holds the same number of features, all 500 m from the default location
Gpkgs ==
  UNION {[ls -> SeqsUpTo(Locations, MaxPerLayer)] : ls \in SUBSET DataLayers}
  \cup {[l \in ServiceLayerNames |-> [i \in 1..n |-> <<300, 400>>]] : n \in 1..MaxCount}

\* the geopackages in which a feature of the health layer may carry an empty
\* geometry
GpkgsDegenerados ==
  UNION {[ls -> SeqsUpTo(Locations \cup {GeometriaVacia}, MaxPerLayer)] :
           ls \in SUBSET DataLayers}

\* the geopackages whose health features are at the projected default location
\* or 500 m from it
GpkgsEnElPunto ==
  UNION {[ls -> SeqsUpTo({ <<0, 0>>, <<300, 400>> }, MaxPerLayer)] :
           ls \in SUBSET DataLayers}

\* geopackages with one health feature and one bank feature, each 1400 m east of
\* the default location or with an empty geometry
GpkgsDosCapas ==
  {[l \in {"establecimientos_salud", "osm_bancos"} |->
      IF l = "osm_bancos" THEN <<q>> ELSE <<p>>] :
     p \in { <<1400, 0>>, GeometriaVacia }, q \in { <<1400, 0>>, GeometriaVacia }}

RECURSIVE Etiquetar(_, _, _)
\* gdf[["geometry"]].copy(); gdf["tipo_servicio"] = category, row by row
Etiquetar(geoms, category, i) ==
  IF i > Len(geoms) THEN <<>>
  ELSE <<[geometry |-> geoms[i], tipo_servicio |-> category]>>
         \o Etiquetar(geoms, category, i + 1)

RECURSIVE ConcatCapas(_, _)
\* the loop over SERVICE_LAYERS.items() and pd.concat(ignore_index=True): a layer
\* that cannot be read or is empty adds nothing
ConcatCapas(gpkg, i) ==
  IF i > Len(SERVICE_LAYERS) THEN <<>>
  ELSE LET category == SERVICE_LAYERS[i][1]
           layer_name == SERVICE_LAYERS[i][2]
       IN  (IF layer_name \in DOMAIN gpkg /\ gpkg[layer_name] # <<>>
            THEN Etiquetar(gpkg[layer_name], category, 1)
            ELSE <<>>) \o ConcatCapas(gpkg, i + 1)

\* cargar_servicios_unificados(gpkg_path): the rows of the result; row i of the
\* sequence has index label i
cargar_servicios_unificados(gpkg) == ConcatCapas(gpkg, 1)

\* the CRS of a layer or of a collection; SinCrs is a crs of None
CrsMetrico == "EPSG:32719"

CrsGeografico == "EPSG:4326"

SinCrs == "None"

\* the layers that vary in the geopackages whose layers carry a CRS
CapasConCrs == {"establecimientos_salud", "osm_bancos"}

\* the coordinates a feature of such a layer has: metres of the metric CRS, or
\* <<lon, lat>> in 1e-4 degrees in a geographic layer; a layer without CRS holds
\* bare numbers
GeomsEn(crs) ==
  IF crs = CrsGeografico THEN { <<LonDefault + 100, LatDefault>> } ELSE { <<300, 400>> }

\* the geopackages whose layers carry a CRS: a readable layer is in the domain,
\* with its CRS and its features in file order. The layers of one file need not
\* agree on the CRS
GpkgsCrs ==
  LET Capas == UNION {{[crs |-> c, geoms |-> sq] :
                         sq \in SeqsUpTo(GeomsEn(c), MaxPerLayer)} :
                      c \in {CrsMetrico, CrsGeografico, SinCrs}}
  IN  UNION {[ls -> Capas] : ls \in SUBSET CapasConCrs}

\* the features of each readable layer, without the CRS
SoloGeoms(gpkg) == [l \in DOMAIN gpkg |-> gpkg[l].geoms]

\* the CRSs of the frames of lista_gdfs: those of the layers read and not empty
CrsCargados(gpkg) ==
  {gpkg[l].crs : l \in {n \in DOMAIN gpkg \cap ServiceLayerNames : gpkg[n].geoms # <<>>}}

\* what a call leaves when pd.concat or to_crs raises
ValueError == [excepcion |-> "ValueError"]

\* the columns of the collection
Columnas == {"geometry", "tipo_servicio"}

\* gdf_total.to_crs(epsg=32719) of rows whose coordinates are read in crs
Reproyectar(filas, crs) ==
  [i \in DOMAIN filas |->
     [filas[i] EXCEPT !.geometry = IF crs = CrsGeografico THEN ToCrs(@[2], @[1]) ELSE @]]

\* the unifier that returns gdf_total as pd.concat left it, without the to_crs
unificar_sin_reproyectar(gpkg) ==
  LET filas == ConcatCapas(SoloGeoms(gpkg), 1)
      definidos == CrsCargados(gpkg) \ {SinCrs}
  IN  IF filas = <<>>
      THEN [filas |-> <<>>, columnas |-> Columnas, crs |-> CrsMetrico]
      ELSE IF Cardinality(definidos) > 1 THEN ValueError
      ELSE [filas |-> filas, columnas |-> Columnas,
            crs |-> IF definidos = {} THEN SinCrs ELSE CHOOSE c \in definidos : TRUE]

\* cargar_servicios_unificados(gpkg_path) with the CRS of each layer: the collection
\* returned (rows, columns, crs) or the exception that leaves the function.
\* pd.concat gives the one CRS the frames define (it raises when they define
\* different ones, and leaves None when none defines one); to_crs raises on a
\* collection whose crs is None. Neither call is inside the try
Unificar(gpkg) ==
  LET filas == ConcatCapas(SoloGeoms(gpkg), 1)
      definidos == CrsCargados(gpkg) \ {SinCrs}
  IN  IF filas = <<>>
      THEN [filas |-> <<>>, columnas |-> Columnas, crs |-> CrsMetrico]
      ELSE IF Cardinality(definidos) > 1 THEN ValueError
      ELSE IF definidos = {} THEN ValueError
      ELSE LET crs == CHOOSE c \in definidos : TRUE
           IN  [filas |-> IF crs # CrsMetrico THEN Reproyectar(filas, crs) ELSE filas,
                columnas |-> Columnas,
                crs |-> CrsMetrico]

(***************************************************************************)
(* Radius query and nearest-outside search: what the function bodies       *)
(* compute                                                                 *)
(***************************************************************************)
\* _gdf_servicios[_gdf_servicios.intersects(circulo)]: the index labels kept
ServiciosCercanos(gdf, circulo) ==
  {i \in DOMAIN gdf : Intersects(gdf[i].geometry, circulo)}

\* filas["tipo_servicio"].value_counts().to_dict(): only the categories present
ValueCounts(gdf, filas) ==
  [t \in {gdf[i].tipo_servicio : i \in filas} |->
     Cardinality({i \in filas : gdf[i].tipo_servicio = t})]

\* the loop "Rellenar ceros": every key of SERVICE_LAYERS missing from conteo gets 0
RellenarCeros(conteo) ==
  [s \in DOMAIN conteo \cup ServiceKeys |->
     IF s \in DOMAIN conteo THEN conteo[s] ELSE 0]

\* the body of obtener_servicios_en_radio
ContarEnRadio(gdf, lat, lon, radio_metros) ==
  LET punto_usuario == ToCrs(lat, lon)
      circulo == Buffer(punto_usuario, radio_metros)
      servicios_cercanos == ServiciosCercanos(gdf, circulo)
  IN  RellenarCeros(ValueCounts(gdf, servicios_cercanos))

\* the selection without the spatial filter: every row
servicios_sin_filtrar(gdf, circulo) == DOMAIN gdf

\* _gdf_servicios[~_gdf_servicios.intersects(circulo)]: the index labels kept
ServiciosFueraRadio(gdf, circulo) ==
  {i \in DOMAIN gdf : ~Intersects(gdf[i].geometry, circulo)}

\* servicios_fuera_radio[servicios_fuera_radio["tipo_servicio"] == tipo]
ServiciosTipo(gdf, fuera, tipo) == {i \in fuera : gdf[i].tipo_servicio = tipo}

\* the rows of filas whose distance to a point is a number: geometry.distance
\* gives NaN for an empty geometry
ConDistancia(gdf, filas) == {i \in filas : gdf[i].geometry # GeometriaVacia}

\* distancias.min(), which skips the NaN
DistanciaMin(gdf, filas, punto) ==
  CHOOSE d \in {Dist2(gdf[i].geometry, punto) : i \in ConDistancia(gdf, filas)} :
    \A j \in ConDistancia(gdf, filas) : d <= Dist2(gdf[j].geometry, punto)

\* distancias.idxmin(), which skips the NaN: the first label, in row order, that
\* attains the minimum
IdxMin(gdf, filas, punto) ==
  CHOOSE i \in ConDistancia(gdf, filas) :
    /\ Dist2(gdf[i].geometry, punto) = DistanciaMin(gdf, filas, punto)
    /\ \A j \in ConDistancia(gdf, filas) :
         Dist2(gdf[j].geometry, punto) = DistanciaMin(gdf, filas, punto) => i <= j

\* servicios_tipo.loc[idx_min] when every distance is NaN: idxmin has no label to
\* give (NaN, or ValueError in a pandas that raises there) and the lookup fails
KeyError == [excepcion |-> "KeyError"]

\* resultados[tipo] of one category that has rows outside the radius
MasCercano(gdf, filas, punto) ==
  LET idx_min == IdxMin(gdf, filas, punto)
  IN  [distancia_m |-> DistanciaMin(gdf, filas, punto),
       geometria |-> ToWgs84(gdf[idx_min].geometry),
       servicio |-> [idx |-> idx_min,
                     geometry |-> gdf[idx_min].geometry,
                     tipo_servicio |-> gdf[idx_min].tipo_servicio]]

\* the body of obtener_servicios_mas_cercanos: an entry for each tipo of
\* tipos_faltantes whose servicios_tipo is not empty; the call fails at the first
\* such tipo whose rows all have an empty geometry
BuscarMasCercanos(gdf, lat, lon, tipos_faltantes, radio_metros) ==
  LET punto_usuario == ToCrs(lat, lon)
      circulo == Buffer(punto_usuario, radio_metros)
      fuera == ServiciosFueraRadio(gdf, circulo)
      con_filas == {tipos_faltantes[j] : j \in
                      {n \in DOMAIN tipos_faltantes :
                         ServiciosTipo(gdf, fuera, tipos_faltantes[n]) # {}}}
  IN  IF \E tipo \in con_filas : ConDistancia(gdf, ServiciosTipo(gdf, fuera, tipo)) = {}
      THEN KeyError
      ELSE [tipo \in con_filas |->
              MasCercano(gdf, ServiciosTipo(gdf, fuera, tipo), punto_usuario)]

\* the selection without the spatial filter: every row, converted
geometrias_sin_filtrar(gdf, circulo) ==
  [filas |-> [i \in DOMAIN gdf |->
                [geometry |-> IF gdf[i].geometry = GeometriaVacia THEN GeometriaVacia
                              ELSE ToWgs84(gdf[i].geometry),
                 tipo_servicio |-> gdf[i].tipo_servicio]],
   crs |-> IF gdf = <<>> THEN CrsMetrico ELSE CrsGeografico]

\* servicios_cercanos.to_crs("EPSG:4326") when the selection is not empty: the
\* selected rows under their index labels, and the CRS of the frame returned
GeometriasEnRadio(gdf, circulo) ==
  LET servicios_cercanos == ServiciosCercanos(gdf, circulo)
  IN  [filas |-> [i \in servicios_cercanos |->
                    [geometry |-> ToWgs84(gdf[i].geometry),
                     tipo_servicio |-> gdf[i].tipo_servicio]],
       crs |-> IF servicios_cercanos = {} THEN CrsMetrico ELSE CrsGeografico]

\* obtener_geometrias_servicios_en_radio that drops the rows outside the circle
\* from the collection it was passed, instead of selecting into a new frame
geometrias_filtra_en_sitio(gdf_servicios, lat, lon, radio_metros) ==
  LET circulo == Buffer(ToCrs(lat, lon), radio_metros)
      Dentro(fila) == Intersects(fila.geometry, circulo)
  IN  [ret |-> GeometriasEnRadio(gdf_servicios, circulo),
       gdf |-> SelectSeq(gdf_servicios, Dentro)]

\* obtener_geometrias_servicios_en_radio(gdf_servicios, lat, lon, radio_metros):
\* its result and the collection it was passed, after the call. The boolean
\* indexing and to_crs build new frames
obtener_geometrias_servicios_en_radio(gdf_servicios, lat, lon, radio_metros) ==
  [ret |-> GeometriasEnRadio(gdf_servicios, Buffer(ToCrs(lat, lon), radio_metros)),
   gdf |-> gdf_servicios]

(***************************************************************************)
(* Scoring                                                                 *)
(***************************************************************************)
\* the unit of a score: the least common multiple of the targets
ScoreUnit ==
  CHOOSE u \in 1..120 :
    /\ \A k \in DOMAIN SCORING_CONFIG : u % SCORING_CONFIG[k] = 0
    /\ \A v \in 1..(u - 1) : \E k \in DOMAIN SCORING_CONFIG : v % SCORING_CONFIG[k] # 0

Min(a, b) == IF a <= b THEN a ELSE b

\* round(num / den, n) as a whole number of 10^-n, for num >= 0 and den > 0, given
\* num already multiplied by 10^n: to nearest, an exact half to the even neighbour
RoundHalfEven(num, den) ==
  LET q == num \div den
      r == num % den
  IN  IF 2 * r < den THEN q
      ELSE IF 2 * r > den THEN q + 1
      ELSE IF q % 2 = 0 THEN q ELSE q + 1

\* normalizar_conteo without the clamp: conteo_real / meta
normalizar_sin_tope(servicio_key, conteo_real) ==
  LET meta == IF servicio_key \in DOMAIN SCORING_CONFIG
              THEN SCORING_CONFIG[servicio_key] ELSE 1
  IN  (conteo_real * ScoreUnit) \div meta

\* what a call leaves when conteo_real / meta divides by zero
ZeroDivisionError == [excepcion |-> "ZeroDivisionError"]

\* normalizar_conteo that never reads the target: min(conteo_real / 1, 1.0)
normalizar_sin_meta(scoring_config, servicio_key, conteo_real) ==
  Min(conteo_real * ScoreUnit, ScoreUnit)

\* a normalization that penalizes a count above the target with half the score
normalizar_penaliza_exceso(scoring_config, servicio_key, conteo_real) ==
  LET meta == IF servicio_key \in DOMAIN scoring_config
              THEN scoring_config[servicio_key] ELSE 1
  IN  IF meta = 0 THEN ZeroDivisionError
      ELSE IF conteo_real > meta THEN ScoreUnit \div 2
      ELSE (conteo_real * ScoreUnit) \div meta

\* the body of normalizar_conteo when the module's SCORING_CONFIG is the table
\* scoring_config (targets only), in 1/ScoreUnit; the division raises when meta is 0
NormalizarCon(scoring_config, servicio_key, conteo_real) ==
  LET meta == IF servicio_key \in DOMAIN scoring_config
              THEN scoring_config[servicio_key] ELSE 1
  IN  IF meta = 0 THEN ZeroDivisionError
      ELSE Min((conteo_real * ScoreUnit) \div meta, ScoreUnit)

\* normalizar_conteo(servicio_key, conteo_real) under the table of the source
normalizar_conteo(servicio_key, conteo_real) ==
  NormalizarCon(SCORING_CONFIG, servicio_key, conteo_real)

\* pesos_perfil.get(servicio, 0)
peso_por_defecto_cero(pesos_perfil, servicio) ==
  IF servicio \in DOMAIN pesos_perfil THEN pesos_perfil[servicio] ELSE 0

\* pesos_perfil.get(servicio, 1)
Peso(pesos_perfil, servicio) ==
  IF servicio \in DOMAIN pesos_perfil THEN pesos_perfil[servicio] ELSE 1

\* aporte = puntaje_norm * peso, in 1/ScoreUnit
Aporte(pesos_perfil, servicio, conteo) ==
  normalizar_conteo(servicio, conteo) * Peso(pesos_perfil, servicio)

RECURSIVE SumaSobre(_, _)
\* the sum of f over the keys in S (the += of the loop)
SumaSobre(f, S) ==
  IF S = {} THEN 0
  ELSE LET k == CHOOSE x \in S : TRUE
       IN  f[k] + SumaSobre(f, S \ {k})

\* puntaje_total_ponderado after the loop, in 1/ScoreUnit
PuntajeTotalPonderado(pesos_perfil, conteo_servicios) ==
  SumaSobre([s \in DOMAIN conteo_servicios |->
               Aporte(pesos_perfil, s, conteo_servicios[s])],
            DOMAIN conteo_servicios)

\* the sum of the weights taken over the profile: every weight the profile
\* gives, in the catalog or not, and 1 for each counted category it leaves out
suma_pesos_del_perfil(pesos_perfil, conteo_servicios) ==
  SumaSobre(pesos_perfil, DOMAIN pesos_perfil)
    + Cardinality(DOMAIN conteo_servicios \ DOMAIN pesos_perfil)

\* suma_pesos_maximos after the loop
SumaPesosMaximos(pesos_perfil, conteo_servicios) ==
  SumaSobre([s \in DOMAIN conteo_servicios |-> Peso(pesos_perfil, s)],
            DOMAIN conteo_servicios)

\* detalles[servicio]; score_norm and aporte_final in hundredths
Detalle(pesos_perfil, servicio, conteo) ==
  [conteo |-> conteo,
   score_norm |-> RoundHalfEven(normalizar_conteo(servicio, conteo) * 100, ScoreUnit),
   importancia |-> Peso(pesos_perfil, servicio),
   aporte_final |-> RoundHalfEven(Aporte(pesos_perfil, servicio, conteo) * 100, ScoreUnit)]

\* the index as the plain mean of the contributions: the sum of aporte divided by
\* the number of categories instead of by the sum of the weights
indice_sin_ponderar(pesos_perfil, conteo_servicios) ==
  LET puntaje_total_ponderado == PuntajeTotalPonderado(pesos_perfil, conteo_servicios)
      categorias == Cardinality(DOMAIN conteo_servicios)
  IN  IF categorias = 0 THEN 0
      ELSE RoundHalfEven(puntaje_total_ponderado * 1000, categorias * ScoreUnit)

\* round(indice_final, 1), in tenths. The quotient is exact here and a float in the
\* code; the two can round to different tenths only when the exact quotient is
\* half way between two tenths, where the float may fall on either side
IndiceFinal(pesos_perfil, conteo_servicios) ==
  LET puntaje_total_ponderado == PuntajeTotalPonderado(pesos_perfil, conteo_servicios)
      suma_pesos_maximos == SumaPesosMaximos(pesos_perfil, conteo_servicios)
  IN  IF suma_pesos_maximos = 0 THEN 0
      ELSE RoundHalfEven(puntaje_total_ponderado * 1000, suma_pesos_maximos * ScoreUnit)

\* the result with the breakdown limited to the categories that contribute: an
\* entry is recorded only when aporte is above 0
resultado_sin_aportes_cero(lat, lon, perfil_key, conteo_servicios) ==
  LET pesos_perfil == PERFILES_USUARIO[perfil_key]
  IN  [indice |-> IndiceFinal(pesos_perfil, conteo_servicios),
       perfil |-> perfil_key,
       lat |-> lat,
       lon |-> lon,
       detalles |-> [s \in {k \in DOMAIN conteo_servicios :
                              Aporte(pesos_perfil, k, conteo_servicios[k]) > 0} |->
                       Detalle(pesos_perfil, s, conteo_servicios[s])]]

\* the result of calcular_indice_calidad_vida for a configured profile, given the
\* counts obtener_servicios_en_radio returned
ResultadoIndice(lat, lon, perfil_key, conteo_servicios) ==
  LET pesos_perfil == PERFILES_USUARIO[perfil_key]
  IN  [indice |-> IndiceFinal(pesos_perfil, conteo_servicios),
       perfil |-> perfil_key,
       lat |-> lat,
       lon |-> lon,
       detalles |-> [s \in DOMAIN conteo_servicios |->
                       Detalle(pesos_perfil, s, conteo_servicios[s])]]

\* {"error": f"Perfil '{perfil_key}' no encontrado."}
ResultadoError(perfil_key) == [error |-> <<"Perfil '", perfil_key, "' no encontrado.">>]

(***************************************************************************)
(* Inputs of the calls                                                     *)
(***************************************************************************)
\* (lat, lon) of a query: the default location, and one about 900 m east of it
QueryPoints ==
  { [lat |-> LatDefault, lon |-> LonDefault],
    [lat |-> LatDefault, lon |-> LonDefault + 100] }

\* radio_metros of a query
Radios == {RadioDefault, RadioDefault \div 2}

\* radio_metros of a query without extent: zero and a negative number
RadiosNulos == {0, -RadioDefault}

\* tipos_faltantes of a query
TiposFaltantes == { <<"salud">>, <<"supermercados", "bancos", "salud">> }

\* perfil_key of a query: the configured profiles and one that is not
PerfilKeys == DOMAIN PERFILES_USUARIO \cup {"no_existe"}

\* servicio_key of a call of normalizar_conteo: the catalog and a key without target
NormKeys == ServiceKeys \cup {"farmacias"}

\* the tables SCORING_CONFIG can be defined as: the one of the source, and that one
\* with the target of one category written as any number up to MaxMeta
Configs ==
  {[SCORING_CONFIG EXCEPT ![k] = m] : k \in {"salud", "museos"}, m \in 0..MaxMeta}
  \cup {SCORING_CONFIG}

\* the versions geodatabase_proyecto.gpkg can have on disk: the health layer with
\* up to MaxPerLayer features 500 m from the default location
ContenidosGpkg ==
  {[l \in DataLayers |-> [i \in 1..n |-> <<300, 400>>]] : n \in 0..MaxPerLayer}

\* a file on disk: whether it exists, its modification time and what it holds
Archivo(existe, mtime, contenido) ==
  [existe |-> existe, mtime |-> mtime, contenido |-> contenido]

\* what desiertos_servicios.csv can hold: unreadable bytes, or rows (datos names
\* their version) with or without the column "poblacion"
ContenidosDesiertos ==
  {[legible |-> FALSE, datos |-> 0, poblacion |-> FALSE]}
  \cup {[legible |-> TRUE, datos |-> d, poblacion |-> b] : d \in 1..2, b \in BOOLEAN}

\* what indicadores_servicios.csv can hold: unreadable bytes, or rows (datos names
\* their version) with or without the columns "cod_comuna" and "poblacion"
ContenidosIndicadores ==
  {[legible |-> FALSE, datos |-> 0, columnas |-> FALSE]}
  \cup {[legible |-> TRUE, datos |-> d, columnas |-> b] : d \in 1..2, b \in BOOLEAN}

\* the disk when the process starts: the three files as first written
DiscoInicial ==
  [gpkg |-> Archivo(TRUE, 0, [l \in DataLayers |-> <<>>]),
   desiertos |-> Archivo(TRUE, 0, [legible |-> TRUE, datos |-> 1, poblacion |-> FALSE]),
   indicadores |-> Archivo(TRUE, 0, [legible |-> TRUE, datos |-> 1, columnas |-> TRUE])]

(***************************************************************************)
(* State                                                                   *)
(*                                                                         *)
(* The memo entries of st.cache_data under different keys do not interact, *)
(* and neither do the memos of different functions, so a behaviour follows *)
(* one query (consulta) of one component through the caller's reloads of   *)
(* the collection; a run of the program that mixes queries interleaves     *)
(* such behaviours on disjoint entries.                                    *)
(***************************************************************************)
VARIABLES
  gdf,                 \* the unified collection the caller holds
  consulta,            \* the query followed: lat, lon, radio_metros, tipos_faltantes
  cache_en_radio,      \* st.cache_data of obtener_servicios_en_radio
  cache_mas_cercanos,  \* st.cache_data of obtener_servicios_mas_cercanos
  call,                \* the last call: its function and arguments
  ret,                 \* what the last call returned
  scoring_config,      \* the module's SCORING_CONFIG (the targets)
  disco,               \* the files on disk: the geopackage and the two CSVs
  cache_recurso,       \* st.cache_resource of cargar_servicios_unificados
  cache_desiertos,     \* st.cache_data of _load_desiertos_content
  session_state        \* st.session_state of the browser session on the calculator page

vars ==
  <<gdf, consulta, cache_en_radio, cache_mas_cercanos, call, ret, scoring_config,
    disco, cache_recurso, cache_desiertos, session_state>>

\* the files and their caches
archivos == <<disco, cache_recurso, cache_desiertos>>

\* the globals and files that the calls of the query components leave alone
resto == <<scoring_config, archivos, session_state>>

\* the state of the query components
estado_consultas == <<gdf, consulta, cache_en_radio, cache_mas_cercanos>>

\* a function wrapped by st.cache_data: the key is made of the hashed arguments
\* (a parameter whose name starts with an underscore is not hashed); a hit returns
\* the stored value and a miss stores the value the body computes; a body that
\* raises stores nothing
Memo(cache, key, valor) ==
  IF key \in DOMAIN cache
  THEN [ret |-> cache[key], cache |-> cache]
  ELSE IF "excepcion" \in DOMAIN valor
  THEN [ret |-> valor, cache |-> cache]
  ELSE [ret |-> valor, cache |-> cache @@ (key :> valor)]

\* obtener_servicios_en_radio(_gdf_servicios, lat, lon, radio_metros) as callers
\* see it: _gdf_servicios is not part of the key
obtener_servicios_en_radio(cache, gdf_servicios, lat, lon, radio_metros) ==
  Memo(cache, <<lat, lon, radio_metros>>,
       ContarEnRadio(gdf_servicios, lat, lon, radio_metros))

\* obtener_servicios_mas_cercanos(_gdf_servicios, lat, lon, tipos_faltantes,
\* radio_metros) as callers see it
obtener_servicios_mas_cercanos(cache, gdf_servicios, lat, lon, tipos_faltantes, radio_metros) ==
  Memo(cache, <<lat, lon, tipos_faltantes, radio_metros>>,
       BuscarMasCercanos(gdf_servicios, lat, lon, tipos_faltantes, radio_metros))

\* calcular_indice_calidad_vida that counts in half the radius
calcular_indice_radio_mitad(cache, gdf_servicios, lat, lon, perfil_key) ==
  IF perfil_key \notin DOMAIN PERFILES_USUARIO
  THEN [ret |-> ResultadoError(perfil_key), cache |-> cache]
  ELSE LET m == obtener_servicios_en_radio(cache, gdf_servicios, lat, lon,
                                           RadioDefault \div 2)
       IN  [ret |-> ResultadoIndice(lat, lon, perfil_key, m.ret), cache |-> m.cache]

\* calcular_indice_calidad_vida that queries the radius before it looks at perfil_key
calcular_indice_consulta_primero(cache, gdf_servicios, lat, lon, perfil_key) ==
  LET m == obtener_servicios_en_radio(cache, gdf_servicios, lat, lon, RadioDefault)
  IN  IF perfil_key \notin DOMAIN PERFILES_USUARIO
      THEN [ret |-> ResultadoError(perfil_key), cache |-> m.cache]
      ELSE [ret |-> ResultadoIndice(lat, lon, perfil_key, m.ret), cache |-> m.cache]

\* calcular_indice_calidad_vida(gdf_servicios, lat, lon, perfil_key): its result
\* and the memo of obtener_servicios_en_radio after it
calcular_indice_calidad_vida(cache, gdf_servicios, lat, lon, perfil_key) ==
  IF perfil_key \notin DOMAIN PERFILES_USUARIO
  THEN [ret |-> ResultadoError(perfil_key), cache |-> cache]
  ELSE LET m == obtener_servicios_en_radio(cache, gdf_servicios, lat, lon, RadioDefault)
       IN  [ret |-> ResultadoIndice(lat, lon, perfil_key, m.ret), cache |-> m.cache]

\* the process has imported the module and loaded a geopackage; nothing is memoized
InitWith(consultas) ==
  /\ gdf \in {cargar_servicios_unificados(g) : g \in Gpkgs}
  /\ consulta \in consultas
  /\ cache_en_radio = <<>>
  /\ cache_mas_cercanos = <<>>
  /\ call = [fn |-> "cargar_servicios_unificados"]
  /\ ret = gdf
  /\ scoring_config = SCORING_CONFIG
  /\ disco = DiscoInicial
  /\ cache_recurso = <<>>
  /\ cache_desiertos = <<>>
  /\ session_state = <<>>

\* RUTA_GPKG
RutaGpkg == "geodatabase_proyecto.gpkg"

\* cargar_servicios_unificados(gpkg_path, _mtime) as callers see it, wrapped by
\* st.cache_resource: _mtime starts with an underscore, so the key is gpkg_path
\* alone; a miss reads the layers of the file as it is on disk
CargarDesdeCache(cache, gpkg_path, mtime, contenido) ==
  IF <<gpkg_path>> \in DOMAIN cache
  THEN [ret |-> cache[<<gpkg_path>>], cache |-> cache]
  ELSE [ret |-> cargar_servicios_unificados(contenido),
        cache |-> cache @@ (<<gpkg_path>> :> cargar_servicios_unificados(contenido))]

\* DESIERTOS_PATH and INDICADORES_PATH
RutaDesiertos == "desiertos_servicios.csv"

RutaIndicadores == "indicadores_servicios.csv"

\* pd.DataFrame(): no rows and no columns
DataFrameVacio == [datos |-> 0, poblacion |-> <<>>]

\* the body of _load_desiertos_content: the rows of the desiertos CSV (datos) and
\* where the column "poblacion" of the table comes from: <<>> when the table has
\* none, the desiertos CSV itself, or the merge with the indicadores CSV
LeerDesiertos(desiertos, indicadores) ==
  IF ~desiertos.existe \/ ~desiertos.contenido.legible
  THEN DataFrameVacio
  ELSE LET df == [datos |-> desiertos.contenido.datos,
                  poblacion |-> IF desiertos.contenido.poblacion
                                THEN <<"desiertos", desiertos.contenido.datos>>
                                ELSE <<>>]
       IN  IF /\ ~desiertos.contenido.poblacion
              /\ indicadores.existe
              /\ indicadores.contenido.legible
              /\ indicadores.contenido.columnas
           THEN [df EXCEPT !.poblacion = <<"indicadores", indicadores.contenido.datos>>]
           ELSE df

\* _load_desiertos_content(path, _mtime, meta_path, _meta_mtime) as its caller
\* sees it: the two modification times start with an underscore, so the key is
\* (path, meta_path)
load_desiertos_content(cache, path, mtime, meta_path, meta_mtime, archivos_csv) ==
  Memo(cache, <<path, meta_path>>,
       LeerDesiertos(archivos_csv.desiertos, archivos_csv.indicadores))

\* cargar_desiertos(): its result and the memo of _load_desiertos_content after it.
\* meta_mtime is <<>> for None
cargar_desiertos(cache, archivos_csv) ==
  IF ~archivos_csv.desiertos.existe
  THEN [ret |-> DataFrameVacio, cache |-> cache]
  ELSE LET mtime == archivos_csv.desiertos.mtime
           meta_mtime == IF archivos_csv.indicadores.existe
                         THEN <<archivos_csv.indicadores.mtime>> ELSE <<>>
       IN  load_desiertos_content(cache, RutaDesiertos, mtime, RutaIndicadores,
                                  meta_mtime, archivos_csv)

\* the caller loads a geopackage and from then on passes its collection
CargarServiciosUnificados ==
  \E g \in Gpkgs :
    /\ gdf' = cargar_servicios_unificados(g)
    /\ call' = [fn |-> "cargar_servicios_unificados"]
    /\ ret' = gdf'
    /\ UNCHANGED <<consulta, cache_en_radio, cache_mas_cercanos, resto>>

\* the caller loads a geopackage with features at the default location
CargarEnElPunto ==
  \E g \in GpkgsEnElPunto :
    /\ gdf' = cargar_servicios_unificados(g)
    /\ call' = [fn |-> "cargar_servicios_unificados"]
    /\ ret' = gdf'
    /\ UNCHANGED <<consulta, cache_en_radio, cache_mas_cercanos, resto>>

ObtenerServiciosEnRadio ==
  LET m == obtener_servicios_en_radio(cache_en_radio, gdf, consulta.lat, consulta.lon,
                                      consulta.radio_metros)
  IN  /\ cache_en_radio' = m.cache
      /\ call' = [fn |-> "obtener_servicios_en_radio"]
      /\ ret' = m.ret
      /\ UNCHANGED <<gdf, consulta, cache_mas_cercanos, resto>>

ObtenerServiciosMasCercanos ==
  LET m == obtener_servicios_mas_cercanos(cache_mas_cercanos, gdf, consulta.lat,
                                          consulta.lon, consulta.tipos_faltantes,
                                          consulta.radio_metros)
  IN  /\ cache_mas_cercanos' = m.cache
      /\ call' = [fn |-> "obtener_servicios_mas_cercanos"]
      /\ ret' = m.ret
      /\ UNCHANGED <<gdf, consulta, cache_en_radio, resto>>

CalcularIndiceCalidadVida ==
  \E perfil_key \in PerfilKeys :
    LET m == calcular_indice_calidad_vida(cache_en_radio, gdf, consulta.lat,
                                          consulta.lon, perfil_key)
    IN  /\ cache_en_radio' = m.cache
        /\ call' = [fn |-> "calcular_indice_calidad_vida", perfil_key |-> perfil_key]
        /\ ret' = m.ret
        /\ UNCHANGED <<gdf, consulta, cache_mas_cercanos, resto>>

ObtenerGeometriasServiciosEnRadio ==
  LET m == obtener_geometrias_servicios_en_radio(gdf, consulta.lat, consulta.lon,
                                                 consulta.radio_metros)
  IN  /\ gdf' = m.gdf
      /\ call' = [fn |-> "obtener_geometrias_servicios_en_radio"]
      /\ ret' = m.ret
      /\ UNCHANGED <<consulta, cache_en_radio, cache_mas_cercanos, resto>>

\* the caller loads a geopackage whose layers carry a CRS; it keeps the collection
\* it held when the call raises
CargarCapasConCrs ==
  \E g \in GpkgsCrs :
    LET r == Unificar(g)
    IN  /\ call' = [fn |-> "cargar_servicios_unificados", gpkg |-> g]
        /\ ret' = r
        /\ gdf' = IF "excepcion" \in DOMAIN r THEN gdf ELSE r.filas
        /\ UNCHANGED <<consulta, cache_en_radio, cache_mas_cercanos, resto>>

(***************************************************************************)
(* The calculator page: a run of the script of main.py in the section      *)
(* "Calculadora Calidad de Vida". Coordinates are in 1e-4 degrees. In the   *)
(* session state None is <<>> and a stored result or error v is <<v>>.      *)
(***************************************************************************)
\* st.session_state.get(k)
SsGet(ss, k) == IF k \in DOMAIN ss THEN ss[k] ELSE <<>>

\* st.session_state.k = v
SsSet(ss, k, v) == (k :> v) @@ ss

\* if k not in st.session_state: st.session_state.k = v; also what a keyed widget
\* does with its value when it is first created
SsDefault(ss, k, v) == IF k \in DOMAIN ss THEN ss ELSE SsSet(ss, k, v)

\* list(SERVICE_LAYERS.keys()): the catalog in the order of the dict
CatalogoEnOrden == [i \in DOMAIN SERVICE_LAYERS |-> SERVICE_LAYERS[i][1]]

\* [tipo for tipo, info in detalles.items() if info["conteo"] == 0]: the zero
\* counts are the ones obtener_servicios_en_radio filled in, in catalog order
TiposFaltantesDe(res) ==
  LET Falta(tipo) == res.detalles[tipo].conteo = 0
  IN  SelectSeq(CatalogoEnOrden, Falta)

\* the top of the section: the default coordinates, the cached load of the
\* collection and the stop when it is empty
CargarEnPagina(ss, c_recurso, archivo_gpkg) ==
  LET m == CargarDesdeCache(c_recurso, RutaGpkg, <<>>, archivo_gpkg.contenido)
  IN  [ss |-> SsDefault(SsDefault(ss, "lat_calc", LatDefault), "lon_calc", LonDefault),
       cache_recurso |-> m.cache,
       gdf |-> m.ret,
       detenido |-> m.ret = <<>>]

\* "Agregar servicios mas cercanos si existen resultados de calculo": the calls of
\* obtener_servicios_mas_cercanos the map makes (none or one) and the memo after
MapaDeSeleccion(ss, c_cercanos, gdf_servicios) ==
  LET curr_lat == ss["lat_calc"]
      curr_lon == ss["lon_calc"]
      guardado == SsGet(ss, "calc_results")
  IN  IF guardado = <<>> \/ TiposFaltantesDe(guardado[1]) = <<>>
      THEN [llamadas |-> <<>>, cache |-> c_cercanos]
      ELSE LET res == guardado[1]
               tipos_faltantes == TiposFaltantesDe(res)
               m == obtener_servicios_mas_cercanos(c_cercanos, gdf_servicios, curr_lat,
                                                   curr_lon, tipos_faltantes, RadioDefault)
           IN  [llamadas |-> <<[lat |-> curr_lat, lon |-> curr_lon,
                                tipos_faltantes |-> tipos_faltantes,
                                res_lat |-> res.lat, res_lon |-> res.lon]>>,
                cache |-> m.cache]

\* "Logica de actualizacion por clic": the click moves the selection when it is
\* more than 0.0001 degrees from the stored coordinates
ClicMueve(ss, evento) ==
  /\ evento.tipo = "clic"
  /\ \/ Abs(evento.lat - ss["lat_calc"]) > 1
     \/ Abs(evento.lon - ss["lon_calc"]) > 1

\* the Calculate branch that stores the result and leaves the error as it was
guardar_sin_limpiar(ss, res) ==
  IF "error" \in DOMAIN res
  THEN SsSet(ss, "calc_error", <<res.error>>)
  ELSE SsSet(ss, "calc_results", <<res>>)

\* "Store results in session state for persistence"
GuardarResultado(ss, res) ==
  IF "error" \in DOMAIN res
  THEN SsSet(SsSet(ss, "calc_error", <<res.error>>), "calc_results", <<>>)
  ELSE SsSet(SsSet(ss, "calc_results", <<res>>), "calc_error", <<>>)

\* the pass as it stands once the collection is loaded: nothing drawn yet
TrasCargar(carga, c_radio, c_cercanos) ==
  [ss |-> carga.ss, cache_recurso |-> carga.cache_recurso,
   cache_en_radio |-> c_radio, cache_mas_cercanos |-> c_cercanos,
   gdf |-> carga.gdf, mas_cercanos |-> <<>>,
   detenido |-> carga.detenido, rerun |-> FALSE]

\* the map is drawn: the calls it made and the memo they left
Dibujar(p, mapa) ==
  [p EXCEPT !.cache_mas_cercanos = mapa.cache, !.mas_cercanos = mapa.llamadas]

\* the branch of the click logic that moves the selection and calls st.rerun()
MoverSeleccion(p, evento) ==
  [p EXCEPT !.ss = SsSet(SsSet(SsSet(SsSet(@,
                     "lat_calc", evento.lat), "lon_calc", evento.lon),
                     "input_lat", evento.lat), "input_lon", evento.lon),
            !.rerun = TRUE]

\* the two number inputs: a keyed widget keeps the value the session holds
EntradasDeCoordenadas(p) ==
  [p EXCEPT !.ss = SsDefault(SsDefault(@, "input_lat", @["lat_calc"]),
                             "input_lon", @["lon_calc"])]

\* the result of calcular_indice_calidad_vida goes to the session state
Guardar(p, m) ==
  [p EXCEPT !.ss = GuardarResultado(@, m.ret), !.cache_en_radio = m.cache]

\* "if st.button(...)": the index is calculated at the coordinates of the inputs
BotonCalcular(p, evento) ==
  IF evento.tipo = "calcular"
  THEN Guardar(p, calcular_indice_calidad_vida(p.cache_en_radio, p.gdf,
                                               p.ss["input_lat"], p.ss["input_lon"],
                                               evento.perfil_sel))
  ELSE p

\* the script from the click logic to the bottom of the section
TrasMapa(dibujado, evento) ==
  IF ClicMueve(dibujado.ss, evento)
  THEN MoverSeleccion(dibujado, evento)
  ELSE BotonCalcular(EntradasDeCoordenadas(dibujado), evento)

\* the script from the stop on an empty collection on
TrasDetener(fin, evento) ==
  IF fin.detenido THEN fin
  ELSE TrasMapa(Dibujar(fin, MapaDeSeleccion(fin.ss, fin.cache_mas_cercanos, fin.gdf)),
                evento)

\* one pass of the script from its top: it ends at st.stop(), at st.rerun() or
\* at the bottom of the section
Pasada(ss, c_recurso, c_radio, c_cercanos, archivo_gpkg, evento) ==
  TrasDetener(TrasCargar(CargarEnPagina(ss, c_recurso, archivo_gpkg), c_radio,
                         c_cercanos),
              evento)

\* the pass st.rerun() starts, with the session state and the memos the first
\* pass left; the calls of both passes are kept
Rerun(p1, archivo_gpkg) ==
  IF ~p1.rerun THEN p1
  ELSE [Pasada(p1.ss, p1.cache_recurso, p1.cache_en_radio, p1.cache_mas_cercanos,
               archivo_gpkg, [tipo |-> "rerun"])
          EXCEPT !.mas_cercanos = p1.mas_cercanos \o @]

\* the script run an event of the browser triggers
EjecutarPagina(ss, c_recurso, c_radio, c_cercanos, archivo_gpkg, evento) ==
  Rerun(Pasada(ss, c_recurso, c_radio, c_cercanos, archivo_gpkg, evento), archivo_gpkg)

\* "Display results if they exist in session state": what the page shows
Mostrado(p) ==
  [detenido |-> p.detenido,
   error |-> IF p.detenido THEN <<>> ELSE SsGet(p.ss, "calc_error"),
   resultado |-> IF p.detenido \/ SsGet(p.ss, "calc_error") # <<>>
                 THEN <<>> ELSE SsGet(p.ss, "calc_results")]

\* where the user can click on the map
ClickPoints ==
  { [lat |-> LatDefault + 1, lon |-> LonDefault],
    [lat |-> LatDefault, lon |-> LonDefault + 100] }

\* what the user can type in the number inputs
InputLats == {LatDefault, LatDefault + 1}

InputLons == {LonDefault, LonDefault + 100}

\* the variables after a script run p
Publicar(p, evento) ==
  /\ session_state' = p.ss
  /\ cache_recurso' = p.cache_recurso
  /\ cache_en_radio' = p.cache_en_radio
  /\ cache_mas_cercanos' = p.cache_mas_cercanos
  /\ gdf' = p.gdf
  /\ call' = [fn |-> "calculadora", evento |-> evento,
              mas_cercanos |-> p.mas_cercanos, detenido |-> p.detenido]
  /\ ret' = Mostrado(p)
  /\ UNCHANGED <<consulta, scoring_config, disco, cache_desiertos>>

\* the state after the script ran for an event
Pagina(evento, ss) ==
  Publicar(EjecutarPagina(ss, cache_recurso, cache_en_radio, cache_mas_cercanos,
                          disco.gpkg, evento),
           evento)

\* the last run of the page reached its bottom: the map, the inputs and the
\* Calculate button are on screen
PaginaMostrada == call.fn = "calculadora" /\ ~call.detenido

\* the user opens the section, or picks a profile in the select box
AbrirCalculadora == Pagina([tipo |-> "abrir"], session_state)

\* the user clicks on the map
ClicEnMapa ==
  \E c \in ClickPoints :
    /\ PaginaMostrada
    /\ Pagina([tipo |-> "clic", lat |-> c.lat, lon |-> c.lon], session_state)

\* the user edits a number input: the widget stores its value and update_coords
\* copies both inputs to lat_calc and lon_calc before the script runs
EditarCoordenadas ==
  \E lat \in InputLats, lon \in InputLons :
    /\ PaginaMostrada
    /\ (lat = session_state["input_lat"]) # (lon = session_state["input_lon"])
    /\ Pagina([tipo |-> "editar", lat |-> lat, lon |-> lon],
              SsSet(SsSet(SsSet(SsSet(session_state,
                "input_lat", lat), "input_lon", lon), "lat_calc", lat), "lon_calc", lon))

\* the user clicks "Calcular Indice" with a profile selected
Calcular ==
  \E perfil_sel \in DOMAIN PERFILES_USUARIO :
    /\ PaginaMostrada
    /\ Pagina([tipo |-> "calcular", perfil_sel |-> perfil_sel], session_state)

\* the geopackage is rewritten on disk, which moves its modification time
ModificarGpkg ==
  \E c \in ContenidosGpkg :
    /\ disco.gpkg.mtime < MaxMtime
    /\ disco' = [disco EXCEPT !.gpkg = Archivo(TRUE, @.mtime + 1, c)]
    /\ call' = [fn |-> "write", path |-> RutaGpkg]
    /\ ret' = <<>>
    /\ UNCHANGED <<estado_consultas, scoring_config, session_state, cache_recurso,
                   cache_desiertos>>

\* cargar_servicios_unificados(RUTA_GPKG), as main.py calls it, or
\* cargar_servicios_unificados(RUTA_GPKG, RUTA_GPKG.stat().st_mtime); the caller
\* holds the collection returned. mtime is <<>> for the default None
CargarServiciosDesdeCache ==
  \E con_mtime \in BOOLEAN :
    LET mtime == IF con_mtime THEN <<disco.gpkg.mtime>> ELSE <<>>
        m == CargarDesdeCache(cache_recurso, RutaGpkg, mtime, disco.gpkg.contenido)
    IN  /\ cache_recurso' = m.cache
        /\ call' = [fn |-> "cargar_servicios_unificados", gpkg_path |-> RutaGpkg,
                    mtime |-> mtime]
        /\ ret' = m.ret
        /\ gdf' = m.ret
        /\ UNCHANGED <<consulta, cache_en_radio, cache_mas_cercanos, scoring_config,
                       session_state, disco, cache_desiertos>>

\* the desiertos CSV is written on disk, which moves its modification time
ModificarDesiertos ==
  \E c \in ContenidosDesiertos :
    /\ disco.desiertos.mtime < MaxMtime
    /\ disco' = [disco EXCEPT !.desiertos = Archivo(TRUE, @.mtime + 1, c)]
    /\ call' = [fn |-> "write", path |-> RutaDesiertos]
    /\ ret' = <<>>
    /\ UNCHANGED <<estado_consultas, scoring_config, session_state, cache_recurso,
                   cache_desiertos>>

\* the indicadores CSV is written on disk, which moves its modification time
ModificarIndicadores ==
  \E c \in ContenidosIndicadores :
    /\ disco.indicadores.mtime < MaxMtime
    /\ disco' = [disco EXCEPT !.indicadores = Archivo(TRUE, @.mtime + 1, c)]
    /\ call' = [fn |-> "write", path |-> RutaIndicadores]
    /\ ret' = <<>>
    /\ UNCHANGED <<estado_consultas, scoring_config, session_state, cache_recurso,
                   cache_desiertos>>

CargarDesiertos ==
  LET m == cargar_desiertos(cache_desiertos, disco)
  IN  /\ cache_desiertos' = m.cache
      /\ call' = [fn |-> "cargar_desiertos"]
      /\ ret' = m.ret
      /\ UNCHANGED <<estado_consultas, scoring_config, session_state, disco,
                     cache_recurso>>

\* normalizar_conteo(servicio_key, conteo_real) called on its own
NormalizarConteo ==
  \E k \in NormKeys, n \in 0..MaxCount :
    /\ call' = [fn |-> "normalizar_conteo", servicio_key |-> k, conteo_real |-> n]
    /\ ret' = NormalizarCon(scoring_config, k, n)
    /\ UNCHANGED <<gdf, consulta, cache_en_radio, cache_mas_cercanos, resto>>

\* SCORING_CONFIG = {...}: the module binds the name to the table as written
DefinirScoringConfig ==
  \E tabla \in Configs :
    /\ scoring_config' = tabla
    /\ call' = [fn |-> "SCORING_CONFIG"]
    /\ ret' = tabla
    /\ UNCHANGED <<gdf, consulta, cache_en_radio, cache_mas_cercanos, archivos,
                   session_state>>

(***************************************************************************)
(* Specifications, one per component                                       *)
(***************************************************************************)
\* the queries followed: a point, a radius, and (for the nearest-outside finder)
\* the categories asked for
Consultas(radios, tipos) ==
  {[lat |-> q.lat, lon |-> q.lon, radio_metros |-> r, tipos_faltantes |-> t] :
     q \in QueryPoints, r \in radios, t \in tipos}

\* Radius Query Engine
InitRadio == InitWith(Consultas(Radios, {<<>>}))

NextRadio == CargarServiciosUnificados \/ ObtenerServiciosEnRadio

SpecRadio == InitRadio /\ [][NextRadio]_vars

\* Nearest-Outside Finder
InitCercanos == InitWith(Consultas(Radios, TiposFaltantes))

NextCercanos == CargarServiciosUnificados \/ ObtenerServiciosMasCercanos

SpecCercanos == InitCercanos /\ [][NextCercanos]_vars

\* Profile Aggregator, which queries the radius RadioDefault
Init == InitWith(Consultas({RadioDefault}, {<<>>}))

Next == CargarServiciosUnificados \/ CalcularIndiceCalidadVida

Spec == Init /\ [][Next]_vars

\* Scoring Normalizer
InitNorm == InitWith(Consultas({RadioDefault}, {<<>>})) /\ gdf = <<>>

NextNorm == NormalizarConteo

SpecNorm == InitNorm /\ [][NextNorm]_vars

\* Spatial Index Unifier
NextUnificar == CargarCapasConCrs

SpecUnificar == InitNorm /\ [][NextUnificar]_vars

\* Scoring Normalizer under any definition of the table
NextConfig == DefinirScoringConfig \/ NormalizarConteo

SpecConfig == InitNorm /\ [][NextConfig]_vars

\* the query operations on one collection, whose features may carry an empty
\* geometry
InitConsultas ==
  /\ gdf \in {cargar_servicios_unificados(g) :
                g \in GpkgsDegenerados \cup GpkgsDosCapas \cup Gpkgs}
  /\ consulta \in Consultas(Radios, TiposFaltantes)
  /\ cache_en_radio = <<>>
  /\ cache_mas_cercanos = <<>>
  /\ call = [fn |-> "cargar_servicios_unificados"]
  /\ ret = gdf
  /\ scoring_config = SCORING_CONFIG
  /\ disco = DiscoInicial
  /\ cache_recurso = <<>>
  /\ cache_desiertos = <<>>
  /\ session_state = <<>>

NextConsultas ==
  \/ ObtenerServiciosEnRadio
  \/ ObtenerGeometriasServiciosEnRadio
  \/ ObtenerServiciosMasCercanos
  \/ CalcularIndiceCalidadVida

SpecConsultas == InitConsultas /\ [][NextConsultas]_vars

\* the process has imported the modules and loaded nothing; the files are on
\* disk as last written
InitArchivos ==
  /\ gdf = <<>>
  /\ consulta \in Consultas({RadioDefault}, {<<>>})
  /\ cache_en_radio = <<>>
  /\ cache_mas_cercanos = <<>>
  /\ call = [fn |-> "import"]
  /\ ret = <<>>
  /\ scoring_config = SCORING_CONFIG
  /\ disco \in [gpkg : {Archivo(TRUE, 0, c) : c \in ContenidosGpkg},
                desiertos : {Archivo(e, 0, c) : e \in BOOLEAN, c \in ContenidosDesiertos},
                indicadores : {Archivo(e, 0, c) : e \in BOOLEAN, c \in ContenidosIndicadores}]
  /\ cache_recurso = <<>>
  /\ cache_desiertos = <<>>
  /\ session_state = <<>>

\* the cached loader of the unified collection while the geopackage changes
InitRecurso ==
  /\ InitArchivos
  /\ disco.desiertos = DiscoInicial.desiertos
  /\ disco.indicadores = DiscoInicial.indicadores

NextRecurso == ModificarGpkg \/ CargarServiciosDesdeCache

SpecRecurso == InitRecurso /\ [][NextRecurso]_vars

\* the loader of the desiertos table while the two CSVs change
InitDesiertos == InitArchivos /\ disco.gpkg = DiscoInicial.gpkg

NextDesiertos == ModificarDesiertos \/ ModificarIndicadores \/ CargarDesiertos

SpecDesiertos == InitDesiertos /\ [][NextDesiertos]_vars

\* Radius Query Engine with radii down to zero and below, on collections with
\* amenities at the query point
InitRadioNulo ==
  /\ gdf \in {cargar_servicios_unificados(g) : g \in GpkgsEnElPunto}
  /\ consulta \in Consultas(RadiosNulos \cup {RadioDefault}, {<<>>})
  /\ cache_en_radio = <<>>
  /\ cache_mas_cercanos = <<>>
  /\ call = [fn |-> "cargar_servicios_unificados"]
  /\ ret = gdf
  /\ scoring_config = SCORING_CONFIG
  /\ disco = DiscoInicial
  /\ cache_recurso = <<>>
  /\ cache_desiertos = <<>>
  /\ session_state = <<>>

NextRadioNulo == CargarEnElPunto \/ ObtenerServiciosEnRadio

SpecRadioNulo == InitRadioNulo /\ [][NextRadioNulo]_vars

\* the calculator page in one browser session
InitPagina == InitRecurso /\ consulta.lat = LatDefault /\ consulta.lon = LonDefault

NextPagina == AbrirCalculadora \/ ClicEnMapa \/ EditarCoordenadas \/ Calcular

SpecPagina == InitPagina /\ [][NextPagina]_vars

(***************************************************************************)
(* Claims                                                                  *)
(***************************************************************************)
\* the last call was calcular_indice_calidad_vida with a configured profile
IndiceCalculado ==
  /\ call.fn = "calcular_indice_calidad_vida"
  /\ call.perfil_key \in DOMAIN PERFILES_USUARIO

\* the projected point and the buffer of the query followed
PuntoConsulta == ToCrs(consulta.lat, consulta.lon)

CirculoConsulta == Buffer(PuntoConsulta, consulta.radio_metros)

\* C1: for every configured profile, collection and query point, the index that
\* calcular_indice_calidad_vida returns is in [0, 100] (0..1000 tenths)
C1_IndiceEnRango ==
  IndiceCalculado => (ret.indice >= 0 /\ ret.indice <= 1000)

\* C1 witness: an index of exactly 100 was returned (every category at its target)
C1_Witness == IndiceCalculado /\ ret.indice = 1000

\* the target of a key: SCORING_CONFIG's, or 1 for a key it does not have
Target(k) == IF k \in DOMAIN SCORING_CONFIG THEN SCORING_CONFIG[k] ELSE 1

\* C2: normalizar_conteo(category, count) = min(count / target, 1), the target of
\* a key absent from SCORING_CONFIG being 1: 0 for count 0, exactly 1 for every
\* count >= target, never above 1, and non-decreasing in count
C2_NormalizarConteo ==
  call.fn = "normalizar_conteo" =>
    LET k == call.servicio_key
        n == call.conteo_real
    IN  /\ ret * Target(k) = Min(n, Target(k)) * ScoreUnit
        /\ (n = 0 => ret = 0)
        /\ (n >= Target(k) => ret = ScoreUnit)
        /\ ret <= ScoreUnit
        /\ \A n2 \in 0..n : normalizar_conteo(k, n2) <= ret

\* C2 witness: a count below the target of a key was normalized to a score
\* strictly between 0 and 1
C2_Witness ==
  /\ call.fn = "normalizar_conteo"
  /\ call.conteo_real > 0
  /\ call.conteo_real < Target(call.servicio_key)
  /\ ret > 0
  /\ ret < ScoreUnit

\* the weight the claim gives category s under the profile's weights
PesoEsperado(pesos, s) == IF s \in DOMAIN pesos THEN pesos[s] ELSE 1

\* C4: a catalog category without a weight in the selected profile is aggregated
\* with weight exactly 1: its detail has importance 1 and a contribution equal to
\* its score, and the index is 100 * (sum over the catalog of score * (weight or
\* 1)) / (sum over the catalog of (weight or 1)), rounded to one decimal
C4_PesoPorDefecto ==
  IndiceCalculado =>
    LET pesos == PERFILES_USUARIO[call.perfil_key]
        num == SumaSobre([s \in ServiceKeys |->
                            normalizar_conteo(s, ret.detalles[s].conteo)
                              * PesoEsperado(pesos, s)], ServiceKeys)
        den == SumaSobre([s \in ServiceKeys |-> PesoEsperado(pesos, s)], ServiceKeys)
    IN  /\ \A s \in ServiceKeys \ DOMAIN pesos :
             /\ ret.detalles[s].importancia = 1
             /\ ret.detalles[s].aporte_final = ret.detalles[s].score_norm
        /\ ret.indice = RoundHalfEven(num * 1000, den * ScoreUnit)

\* C4 witness: for estudiante, which gives salud no weight, one health amenity in
\* the radius (score 0.5) and nothing else gave the index 100 * 0.5 / 36 = 1.4
C4_Witness ==
  /\ IndiceCalculado
  /\ call.perfil_key = "estudiante"
  /\ ret.detalles["salud"].conteo = 1
  /\ \A s \in ServiceKeys \ {"salud"} : ret.detalles[s].conteo = 0
  /\ ret.detalles["salud"].importancia = 1
  /\ ret.indice = 14

\* C9: with a perfil_key that is not in PERFILES_USUARIO the call returns a result
\* with only an error that names the key, and the radius query is not run (the
\* memo of obtener_servicios_en_radio is as before the call)
C9_PerfilDesconocido ==
  [][(/\ call'.fn = "calcular_indice_calidad_vida"
      /\ call'.perfil_key \notin DOMAIN PERFILES_USUARIO)
       => /\ DOMAIN ret' = {"error"}
          /\ \E n \in DOMAIN ret'.error : ret'.error[n] = call'.perfil_key
          /\ cache_en_radio' = cache_en_radio]_vars

\* C9 witness: the call with "no_existe" returned an error while nothing had been
\* memoized for its point
C9_Witness ==
  /\ call.fn = "calcular_indice_calidad_vida"
  /\ call.perfil_key = "no_existe"
  /\ "error" \in DOMAIN ret
  /\ cache_en_radio = <<>>

\* C3: for every collection, point and radius, the map obtener_servicios_en_radio
\* returns has every key of SERVICE_LAYERS, and 0 for each category that has no
\* amenity of the collection passed inside the radius
C3_CatalogoCompleto ==
  call.fn = "obtener_servicios_en_radio" =>
    /\ ServiceKeys \subseteq DOMAIN ret
    /\ \A s \in ServiceKeys :
         (\A i \in ServiciosCercanos(gdf, CirculoConsulta) : gdf[i].tipo_servicio # s)
           => ret[s] = 0

\* the amenities of category s at exactly radio_metros from the query point
EnElBorde(s) ==
  {i \in DOMAIN gdf :
     /\ gdf[i].tipo_servicio = s
     /\ Dist2(gdf[i].geometry, PuntoConsulta)
          = consulta.radio_metros * consulta.radio_metros}

\* C5: an amenity whose distance from the query point is exactly radio_metros is
\* counted by obtener_servicios_en_radio: the count of its category is at least
\* the number of amenities of that category at that distance
C5_BordeIncluido ==
  call.fn = "obtener_servicios_en_radio" =>
    \A s \in ServiceKeys : s \in DOMAIN ret /\ ret[s] >= Cardinality(EnElBorde(s))

\* C6: every amenity obtener_servicios_mas_cercanos returns lies outside the query
\* buffer, so it is none of the amenities of the collection that are in the radius
C6_FueraDelRadio ==
  call.fn = "obtener_servicios_mas_cercanos" =>
    \A t \in DOMAIN ret :
      /\ ~Intersects(ret[t].servicio.geometry, CirculoConsulta)
      /\ \A i \in ServiciosCercanos(gdf, CirculoConsulta) :
           gdf[i].geometry # ret[t].servicio.geometry

\* C6 witness: a health amenity was returned as nearest outside although the
\* collection has a closer one, which is inside the radius
C6_Witness ==
  /\ call.fn = "obtener_servicios_mas_cercanos"
  /\ "salud" \in DOMAIN ret
  /\ \E i \in ServiciosCercanos(gdf, CirculoConsulta) :
       /\ gdf[i].tipo_servicio = "salud"
       /\ Dist2(gdf[i].geometry, PuntoConsulta) < ret["salud"].distancia_m

\* the rows of category t of the collection passed that are outside the radius
FueraDeTipo(t) == ServiciosTipo(gdf, ServiciosFueraRadio(gdf, CirculoConsulta), t)

\* the categories asked for
TiposPedidos == {consulta.tipos_faltantes[j] : j \in DOMAIN consulta.tipos_faltantes}

\* C7: for each requested category with an amenity outside the radius,
\* distancia_m is the least distance from the query point over the out-of-radius
\* amenities of that category of the collection passed, and the amenity returned
\* is one of them at that distance
C7_MasCercanoEsMinimo ==
  call.fn = "obtener_servicios_mas_cercanos" =>
    \A t \in TiposPedidos :
      FueraDeTipo(t) # {} =>
        /\ t \in DOMAIN ret
        /\ \A i \in FueraDeTipo(t) :
             ret[t].distancia_m <= Dist2(gdf[i].geometry, PuntoConsulta)
        /\ \E i \in FueraDeTipo(t) :
             /\ gdf[i].geometry = ret[t].servicio.geometry
             /\ Dist2(gdf[i].geometry, PuntoConsulta) = ret[t].distancia_m

\* C8: the keys of the result of obtener_servicios_mas_cercanos are exactly the
\* requested categories that have an amenity of the collection passed outside the
\* radius
C8_ClavesDelResultado ==
  call.fn = "obtener_servicios_mas_cercanos" =>
    DOMAIN ret = {t \in TiposPedidos : FueraDeTipo(t) # {}}

\* C10: with an empty collection, for any point and configured profile, every
\* count, normalized score and contribution is 0 and the index is 0
C10_ColeccionVacia ==
  (IndiceCalculado /\ gdf = <<>>) =>
    /\ ret.indice = 0
    /\ \A s \in ServiceKeys :
         /\ s \in DOMAIN ret.detalles
         /\ ret.detalles[s].conteo = 0
         /\ ret.detalles[s].score_norm = 0
         /\ ret.detalles[s].aporte_final = 0

\* the count map calcular_indice_calidad_vida got from obtener_servicios_en_radio:
\* after the call it is the memo entry of the query's point and RadioDefault
ConteoUsado == cache_en_radio[<<consulta.lat, consulta.lon, RadioDefault>>]

\* C11: detalles has one entry for every category of the count map, which covers
\* the whole catalog, with the count of that category; a category whose count and
\* contribution are zero is in the breakdown like any other
C11_DetallesCompletos ==
  IndiceCalculado =>
    /\ DOMAIN ret.detalles = DOMAIN ConteoUsado
    /\ ServiceKeys \subseteq DOMAIN ret.detalles
    /\ \A s \in DOMAIN ConteoUsado : ret.detalles[s].conteo = ConteoUsado[s]

\* C11 witness: a breakdown with a category that counts and contributes, and one
\* whose count and contribution are zero
C11_Witness ==
  /\ IndiceCalculado
  /\ ret.detalles["salud"].conteo = 2
  /\ ret.detalles["salud"].aporte_final > 0
  /\ "museos" \in DOMAIN ret.detalles
  /\ ret.detalles["museos"].conteo = 0
  /\ ret.detalles["museos"].aporte_final = 0

\* the contribution the formula gives a category with count n and weight w, in
\* 1/ScoreUnit: min(n / target, 1) * w
AporteFormula(s, n, w) == ((Min(n, Target(s)) * ScoreUnit) \div Target(s)) * w

\* C12: the index is 0 when the sum of the weights is 0, and otherwise it is
\* 100 * (sum over the categories of normalized score * weight) / (sum of the
\* weights) rounded to one decimal: a tenth at most half a tenth from that value
C12_FormulaDelIndice ==
  IndiceCalculado =>
    LET d == ret.detalles
        num == SumaSobre([s \in DOMAIN d |->
                            AporteFormula(s, d[s].conteo, d[s].importancia)], DOMAIN d)
        den == SumaSobre([s \in DOMAIN d |-> d[s].importancia], DOMAIN d)
    IN  IF den = 0 THEN ret.indice = 0
        ELSE 2 * Abs(ret.indice * den * ScoreUnit - num * 1000) <= den * ScoreUnit

\* C12 witness: for adulto_mayor (weights summing to 34 over the catalog, salud
\* weighing 5) one health amenity in the radius, score 0.5, gave
\* 100 * 2.5 / 34 = 7.35..., returned as 7.4
C12_Witness ==
  /\ IndiceCalculado
  /\ call.perfil_key = "adulto_mayor"
  /\ ret.detalles["salud"].conteo = 1
  /\ ret.detalles["salud"].importancia = 5
  /\ \A s \in ServiceKeys \ {"salud"} : ret.detalles[s].conteo = 0
  /\ ret.indice = 74

\* the target normalizar_conteo divides by for key k under the table in force
MetaEnUso(k) == IF k \in DOMAIN scoring_config THEN scoring_config[k] ELSE 1

\* C13: a target of zero is rejected when the configuration is defined, so no call
\* of normalizar_conteo ever divides by zero: every call returns a score
C13_SinFallaDeDivision ==
  call.fn = "normalizar_conteo" =>
    (MetaEnUso(call.servicio_key) # 0 /\ ret \in 0..ScoreUnit)

\* the last call was cargar_servicios_unificados on a geopackage whose layers
\* carry a CRS
CapasCargadas == call.fn = "cargar_servicios_unificados" /\ "gpkg" \in DOMAIN call

\* the number of features of the layer of category n of the geopackage loaded that
\* end in the collection: those of a layer that is readable, none of any other
FeaturesDe(n) ==
  IF SERVICE_LAYERS[n][2] \in DOMAIN call.gpkg
  THEN Len(call.gpkg[SERVICE_LAYERS[n][2]].geoms) ELSE 0

\* C14: whatever layers are missing or unreadable, cargar_servicios_unificados
\* does not fail: it returns the features of the layers that loaded and are not
\* empty, each under the category of its layer, and nothing else; when no layer
\* loads it returns an empty collection with the columns geometry and
\* tipo_servicio in the metric CRS
C14_UnificadorNoFalla ==
  CapasCargadas =>
    /\ "excepcion" \notin DOMAIN ret
    /\ \A n \in DOMAIN SERVICE_LAYERS :
         Cardinality({i \in DOMAIN ret.filas :
                        ret.filas[i].tipo_servicio = SERVICE_LAYERS[n][1]}) = FeaturesDe(n)
    /\ Len(ret.filas) = SumaSobre([n \in DOMAIN SERVICE_LAYERS |-> FeaturesDe(n)],
                                  DOMAIN SERVICE_LAYERS)
    /\ (\A n \in DOMAIN SERVICE_LAYERS : FeaturesDe(n) = 0) =>
         (ret.filas = <<>> /\ ret.columnas = {"geometry", "tipo_servicio"}
            /\ ret.crs = "EPSG:32719")

\* the CRS in which pd.concat leaves the rows of the geopackage loaded: the one
\* CRS its loaded layers define
CrsComun == CHOOSE c \in CrsCargados(call.gpkg) \ {"None"} : TRUE

\* C15: every row of the collection cargar_servicios_unificados returns has one
\* category, the SERVICE_LAYERS key of the layer it was loaded from, and on every
\* return path the collection is in EPSG:32719, whatever CRS the source layers
\* had: its crs says so and a feature read in geographic coordinates is projected
C15_CategoriaYCrs ==
  (CapasCargadas /\ "excepcion" \notin DOMAIN ret) =>
    /\ ret.crs = "EPSG:32719"
    /\ \A i \in DOMAIN ret.filas :
         /\ DOMAIN ret.filas[i] = {"geometry", "tipo_servicio"}
         /\ \E n \in DOMAIN SERVICE_LAYERS :
              /\ ret.filas[i].tipo_servicio = SERVICE_LAYERS[n][1]
              /\ SERVICE_LAYERS[n][2] \in DOMAIN call.gpkg
              /\ \E j \in DOMAIN call.gpkg[SERVICE_LAYERS[n][2]].geoms :
                   LET p == call.gpkg[SERVICE_LAYERS[n][2]].geoms[j]
                   IN  ret.filas[i].geometry =
                         IF CrsComun = "EPSG:4326" THEN ToCrs(p[2], p[1]) ELSE p

\* C15 witness: a geopackage with health and bank layers in EPSG:4326 was loaded
\* and the collection returned is in EPSG:32719, with rows of both categories
C15_Witness ==
  /\ CapasCargadas
  /\ "excepcion" \notin DOMAIN ret
  /\ DOMAIN call.gpkg = {"establecimientos_salud", "osm_bancos"}
  /\ \A l \in DOMAIN call.gpkg : call.gpkg[l].crs = "EPSG:4326" /\ call.gpkg[l].geoms # <<>>
  /\ ret.crs = "EPSG:32719"
  /\ {ret.filas[i].tipo_servicio : i \in DOMAIN ret.filas} = {"salud", "bancos"}
  /\ \A i \in DOMAIN ret.filas : ret.filas[i].geometry = <<900, 0>>

\* C16: an amenity with an empty geometry is never counted in the radius and never
\* selected as the nearest one outside it, and neither query fails because of it,
\* even when every out-of-radius amenity of a requested category has an empty
\* geometry
C16_DegeneradaExcluida ==
  /\ call.fn = "obtener_servicios_en_radio" =>
       /\ "excepcion" \notin DOMAIN ret
       /\ \A s \in ServiceKeys :
            ret[s] = Cardinality({i \in DOMAIN gdf :
                                    /\ gdf[i].tipo_servicio = s
                                    /\ gdf[i].geometry # <<>>
                                    /\ Intersects(gdf[i].geometry, CirculoConsulta)})
  /\ call.fn = "obtener_servicios_mas_cercanos" =>
       /\ "excepcion" \notin DOMAIN ret
       /\ \A tipo \in DOMAIN ret : ret[tipo].servicio.geometry # <<>>

\* the query operations of the backend
OperacionesDeConsulta ==
  {"obtener_servicios_en_radio", "obtener_geometrias_servicios_en_radio",
   "obtener_servicios_mas_cercanos", "calcular_indice_calidad_vida"}

\* C17: no query operation changes the unified collection passed to it: after
\* the call its rows have the geometries (in the metric CRS) and the categories
\* they had before
C17_ConsultasNoMutan ==
  [][call'.fn \in OperacionesDeConsulta => gdf' = gdf]_vars

\* C17 witness: obtener_geometrias_servicios_en_radio returned amenities in
\* geographic coordinates, selected from a collection of two rows that still has
\* its metric geometries
C17_Witness ==
  /\ call.fn = "obtener_geometrias_servicios_en_radio"
  /\ ret.crs = "EPSG:4326"
  /\ DOMAIN ret.filas = {1}
  /\ ret.filas[1].geometry = [lat |-> LatDefault + 36, lon |-> LonDefault + 33]
  /\ Len(gdf) = 2
  /\ gdf[1].geometry = <<300, 400>>
  /\ gdf[2].geometry = <<1400, 0>>

\* C18: each call of obtener_servicios_en_radio and of
\* obtener_servicios_mas_cercanos returns the result computed from the collection
\* passed to that call, whatever was called before with the same lat, lon and
\* radius on another collection
C18_ResultadoDeLaColeccionPasada ==
  /\ call.fn = "obtener_servicios_en_radio" =>
       ret = ContarEnRadio(gdf, consulta.lat, consulta.lon, consulta.radio_metros)
  /\ call.fn = "obtener_servicios_mas_cercanos" =>
       ret = BuscarMasCercanos(gdf, consulta.lat, consulta.lon,
                               consulta.tipos_faltantes, consulta.radio_metros)

\* C19: a call of cargar_servicios_unificados that gives the file's modification
\* time as _mtime returns the collection loaded from the file as it is now: when
\* the file changed since the previous call for the path, the layers are reloaded
C19_CacheInvalidada ==
  (/\ call.fn = "cargar_servicios_unificados"
   /\ "mtime" \in DOMAIN call
   /\ call.mtime = <<disco.gpkg.mtime>>)
    => ret = cargar_servicios_unificados(disco.gpkg.contenido)

\* C20: a call of cargar_desiertos returns the table read from the desiertos CSV
\* and the indicadores CSV as they are on disk now, also after either file was
\* modified since the previous call
C20_TablaDeLosArchivosActuales ==
  call.fn = "cargar_desiertos" =>
    ret = IF disco.desiertos.existe
          THEN LeerDesiertos(disco.desiertos, disco.indicadores)
          ELSE [datos |-> 0, poblacion |-> <<>>]

\* C21: obtener_servicios_en_radio called with a radius of 0 or less returns the
\* count 0 for every category of the catalog, whatever the collection, also when
\* an amenity lies exactly at the query point
C21_RadioNulo ==
  (call.fn = "obtener_servicios_en_radio" /\ consulta.radio_metros <= 0) =>
    /\ DOMAIN ret = ServiceKeys
    /\ \A s \in ServiceKeys : ret[s] = 0

\* C21 witness: a query of radius 0 returned the all-zero map on a collection
\* that has a health amenity exactly at the query point
C21_Witness ==
  /\ call.fn = "obtener_servicios_en_radio"
  /\ consulta.radio_metros = 0
  /\ \E i \in DOMAIN gdf : gdf[i].geometry = PuntoConsulta
  /\ ret["salud"] = 0

\* C22: on the calculator page no run ends at a no-data stop, so the calculation
\* can always be requested, and every Calculate click with a configured profile
\* ends with a score result stored and shown, also when the collection is empty
C22_SiempreHayResultado ==
  call.fn = "calculadora" =>
    /\ ~call.detenido
    /\ call.evento.tipo = "calcular" =>
         /\ ret.resultado # <<>>
         /\ ret.resultado[1].perfil = call.evento.perfil_sel
         /\ DOMAIN ret.resultado[1].detalles = ServiceKeys

\* the count map obtener_servicios_en_radio returns now for the collection, point
\* and radius of the query followed
ConteoAhora ==
  obtener_servicios_en_radio(cache_en_radio, gdf, consulta.lat, consulta.lon,
                             consulta.radio_metros).ret

\* the rows obtener_geometrias_servicios_en_radio returns now for the same
\* collection, point and radius
FilasAhora ==
  obtener_geometrias_servicios_en_radio(gdf, consulta.lat, consulta.lon,
                                        consulta.radio_metros).ret.filas

ConteoAMilMetros ==
  obtener_servicios_en_radio(cache_en_radio, gdf, consulta.lat, consulta.lon, 1000).ret

\* C24: in the result of calcular_indice_calidad_vida each detail's conteo is the
\* count obtener_servicios_en_radio returns for the category at 1000 m around the
\* coordinates given, its score_norm is normalizar_conteo of that count rounded
\* to 2 decimals, its importancia is the weight used, and the result echoes the
\* profile key, lat and lon of the call
C24_DetallesYEco ==
  IndiceCalculado =>
    /\ ret.perfil = call.perfil_key
    /\ ret.lat = consulta.lat
    /\ ret.lon = consulta.lon
    /\ \A s \in DOMAIN ret.detalles :
         /\ ret.detalles[s].conteo = ConteoAMilMetros[s]
         /\ ret.detalles[s].score_norm =
              RoundHalfEven(normalizar_conteo(s, ConteoAMilMetros[s]) * 100, ScoreUnit)
         /\ ret.detalles[s].importancia = Peso(PERFILES_USUARIO[call.perfil_key], s)

\* C24 witness: for familia_joven one health amenity was counted, against a
\* target of 2: score_norm 0.5 with the profile's weight, and the call's
\* coordinates echoed
C24_Witness ==
  /\ IndiceCalculado
  /\ call.perfil_key = "familia_joven"
  /\ ret.perfil = "familia_joven"
  /\ ret.lat = LatDefault
  /\ ret.lon = LonDefault + 100
  /\ ret.detalles["salud"].conteo = 1
  /\ ret.detalles["salud"].score_norm = 50
  /\ ret.detalles["salud"].importancia = 4

\* the entry of a category in what obtener_servicios_mas_cercanos gave: <<>> when
\* there is none (the category has no key, or the call failed)
EntradaDe(r, c) ==
  IF "excepcion" \in DOMAIN r \/ c \notin DOMAIN r THEN <<>> ELSE <<r[c]>>

\* C25: for a fixed collection, point and radius, the entry that
\* obtener_servicios_mas_cercanos returns for a requested category is the one
\* that a call asking for that category alone computes: it does not depend on
\* the other categories requested nor on their order
C25_EntradaIndependiente ==
  call.fn = "obtener_servicios_mas_cercanos" =>
    \A c \in TiposPedidos :
      EntradaDe(ret, c) =
        EntradaDe(BuscarMasCercanos(gdf, consulta.lat, consulta.lon, <<c>>,
                                    consulta.radio_metros), c)

\* C26: a requested category whose in-radius count is 0 and that has an amenity
\* in the collection gets an entry from obtener_servicios_mas_cercanos, for the
\* same collection, point and radius, and the entry is the nearest amenity of the
\* category overall
C26_FaltanteTieneMasCercano ==
  call.fn = "obtener_servicios_mas_cercanos" =>
    \A c \in TiposPedidos :
      (ConteoAhora[c] = 0 /\ \E i \in DOMAIN gdf : gdf[i].tipo_servicio = c) =>
        /\ "excepcion" \notin DOMAIN ret
        /\ c \in DOMAIN ret
        /\ ret[c].servicio.tipo_servicio = c
        /\ \A i \in DOMAIN gdf :
             (gdf[i].tipo_servicio = c /\ gdf[i].geometry # <<>>) =>
               ret[c].distancia_m <= Dist2(gdf[i].geometry, PuntoConsulta)

\* a profile's weights without the ones it gives to categories that are not in
\* SERVICE_LAYERS
PesosDelCatalogo(pesos_perfil) ==
  [k \in DOMAIN pesos_perfil \cap ServiceKeys |-> pesos_perfil[k]]

\* C27: a weight that the profile gives to a category that is not in
\* SERVICE_LAYERS has no effect: the index and the details returned by
\* calcular_indice_calidad_vida are those computed with that weight removed
C27_PesoAjenoSinEfecto ==
  IndiceCalculado =>
    LET pesos == PesosDelCatalogo(PERFILES_USUARIO[call.perfil_key])
    IN  /\ ret.indice = IndiceFinal(pesos, ConteoAMilMetros)
        /\ DOMAIN ret.detalles = DOMAIN ConteoAMilMetros
        /\ \A s \in DOMAIN ret.detalles :
             ret.detalles[s] = Detalle(pesos, s, ConteoAMilMetros[s])

\* C27 witness: adulto_mayor, which weighs farmacias 5 although no layer feeds
\* it, got an index above 0 and a breakdown without farmacias
C27_Witness ==
  /\ IndiceCalculado
  /\ call.perfil_key = "adulto_mayor"
  /\ "farmacias" \in DOMAIN PERFILES_USUARIO["adulto_mayor"]
  /\ "farmacias" \notin ServiceKeys
  /\ ret.indice > 0
  /\ "farmacias" \notin DOMAIN ret.detalles

\* the index calcular_indice_calidad_vida computes for a collection, around the
\* coordinates of the query followed
IndiceDe(coleccion, perfil_key) ==
  calcular_indice_calidad_vida(<<>>, coleccion, consulta.lat, consulta.lon,
                               perfil_key).ret.indice

\* where the amenity added is: 500 m from the default location, or 1400 m east
\* of it (500 m from the other query point)
LugaresNuevos == { <<300, 400>>, <<1400, 0>> }

\* the collection held with one more amenity of a category at a place
ConUnServicioMas(s, p) == Append(gdf, [geometry |-> p, tipo_servicio |-> s])

\* C28: for a configured profile and a fixed query point, the index is monotone
\* in the collection: with one more amenity of any catalog category, anywhere,
\* calcular_indice_calidad_vida does not return a lower index
C28_IndiceMonotono ==
  IndiceCalculado =>
    LET antes == IndiceDe(gdf, call.perfil_key)
    IN  \A s \in ServiceKeys, p \in LugaresNuevos :
          IndiceDe(ConUnServicioMas(s, p), call.perfil_key) >= antes

\* C28 witness: an index was computed for a collection to which one more health
\* amenity in the radius gives a higher index, while one more of a category that
\* already meets its target leaves it the same
C28_Witness ==
  /\ IndiceCalculado
  /\ gdf # <<>>
  /\ ret.indice = IndiceDe(gdf, call.perfil_key)
  /\ IndiceDe(ConUnServicioMas("salud", <<300, 400>>), call.perfil_key) > ret.indice
  /\ IndiceDe(ConUnServicioMas("museos", <<300, 400>>), call.perfil_key) = ret.indice
  /\ ret.detalles["museos"].conteo >= 1

\* C29: on the calculator page calc_results and calc_error are never both set,
\* and a Calculate click leaves exactly one of them set and the other stored as
\* None
C29_ResultadoOError ==
  /\ ~(SsGet(session_state, "calc_results") # <<>>
       /\ SsGet(session_state, "calc_error") # <<>>)
  /\ (call.fn = "calculadora" /\ call.evento.tipo = "calcular") =>
       /\ {"calc_results", "calc_error"} \subseteq DOMAIN session_state
       /\ (session_state["calc_results"] # <<>>) # (session_state["calc_error"] # <<>>)

\* C29 witness: after a second Calculate click, with another profile, the stored
\* result is the one of that click and calc_error is None
C29_Witness ==
  /\ call.fn = "calculadora"
  /\ call.evento.tipo = "calcular"
  /\ call.evento.perfil_sel = "estudiante"
  /\ call.mas_cercanos # <<>>
  /\ session_state["calc_results"] # <<>>
  /\ session_state["calc_results"][1].perfil = "estudiante"
  /\ session_state["calc_error"] = <<>>
  /\ ret.resultado = session_state["calc_results"]

\* C30: whenever the calculator page computes nearest-outside records, the
\* coordinates it passes to obtener_servicios_mas_cercanos are the lat and lon of
\* the stored score result from which the zero-count categories are taken
C30_CoordenadasDelResultado ==
  call.fn = "calculadora" =>
    \A i \in DOMAIN call.mas_cercanos :
      /\ call.mas_cercanos[i].lat = call.mas_cercanos[i].res_lat
      /\ call.mas_cercanos[i].lon = call.mas_cercanos[i].res_lon

====
